---- MODULE Spec2Model ----
(***************************************************************************)
(* contor/object.py: the hexagonal tile grid (make_grid) and the path      *)
(* projection (make_path).                                                 *)
(*                                                                         *)
(* Numbers.  Every float the module computes is of the form a/2 + b*K for  *)
(* integers a, b, with K = cos(30 degrees) (irrational, so a and b are     *)
(* determined by the value).  Such a value is held as the pair <<a, b>>:   *)
(* 7.5 is <<15, 0>>, 5*K is <<0, 5>>, the integer 5 is <<10, 0>>.          *)
(*                                                                         *)
(* References.  A tile is a dict held once in `tiles`; a reference to it   *)
(* (a value of a neighbors mapping) is held as its key in `tiles`.         *)
(***************************************************************************)
EXTENDS Integers, Sequences, FiniteSets, TLC

\* ---- bounds of the inputs ------------------------------------------------
MaxWidth == 8
MaxHeight == 7
MaxPathLen == 2

Widths == {-2, -1} \cup (0..MaxWidth)
Heights == {-2, -1} \cup (0..MaxHeight)
Radii == {2, 5}
\* rectangular points given to make_path: inside every grid, inside some, outside all
PathPoints == {<<0, 0>>, <<1, 0>>, <<1, 1>>, <<2, 3>>, <<-3, -1>>, <<12, 12>>}

RECURSIVE SeqsUpTo(_, _)
SeqsUpTo(S, n) ==
    IF n = 0 THEN {<< >>}
    ELSE LET shorter == SeqsUpTo(S, n - 1)
         IN  shorter \cup {Append(s, x) : s \in {t \in shorter : Len(t) = n - 1}, x \in S}

PathInputs == SeqsUpTo(PathPoints, MaxPathLen)

\* ---- constants (object.py:10-18) -----------------------------------------
\* K itself: 0/2 + 1*K
K == <<0, 1>>

\* the keys of DIRECTIONS in the dict's iteration order
DirectionNames == <<"N", "NE", "SE", "S", "SW", "NW">>

\* DIRECTIONS with the offset of SW mistyped
DIRECTIONS_sw_mistyped ==
    [d \in {"N", "NE", "SE", "S", "SW", "NW"} |->
        CASE d = "N"  -> << 1,  0>>
          [] d = "NE" -> << 1,  1>>
          [] d = "SE" -> << 0,  1>>
          [] d = "S"  -> <<-1,  0>>
          [] d = "SW" -> <<-1,  1>>
          [] d = "NW" -> << 0, -1>>]

\* DIRECTIONS with the offset of NE mistyped
DIRECTIONS_ne_mistyped ==
    [d \in {"N", "NE", "SE", "S", "SW", "NW"} |->
        CASE d = "N"  -> << 1,  0>>
          [] d = "NE" -> << 1, -1>>
          [] d = "SE" -> << 0,  1>>
          [] d = "S"  -> <<-1,  0>>
          [] d = "SW" -> <<-1, -1>>
          [] d = "NW" -> << 0, -1>>]

DIRECTIONS ==
    [d \in {"N", "NE", "SE", "S", "SW", "NW"} |->
        CASE d = "N"  -> << 1,  0>>
          [] d = "NE" -> << 1,  1>>
          [] d = "SE" -> << 0,  1>>
          [] d = "S"  -> <<-1,  0>>
          [] d = "SW" -> <<-1, -1>>
          [] d = "NW" -> << 0, -1>>]

\* ---- builtins ------------------------------------------------------------
\* range that counts |n| elements for a negative n
range_abs(n) == [k \in 1..(IF n < 0 THEN -n ELSE n) |-> k - 1]

\* range(n): 0, 1, ..., n-1; empty when n <= 0
range(n) == [k \in 1..n |-> k - 1]

\* itertools.product(a, b): the pairs in order, the last element varying fastest
cartesian_product(a, b) ==
    [k \in 1..(Len(a) * Len(b)) |->
        <<a[((k - 1) \div Len(b)) + 1], b[((k - 1) % Len(b)) + 1]>>]

None == [type |-> "None"]

\* ---- constructors (object.py:98-128) -------------------------------------
\* _ij that halves the column as well
_ij_halved(i, j) == <<i \div 2, -j + (i \div 2)>>

_ij(i, j) == <<i, -j + (i \div 2)>>

\* _tile_xy without the factor 2 of the skew
_tile_xy_unskewed(R, i, j) == << <<i * 3 * R, 0>>, <<0, (i - j) * R>> >>

\* _tile_xy with the half-tile step dropped from x
_tile_xy_wide(R, i, j) == << <<i * 4 * R, 0>>, <<0, (i - 2 * j) * R>> >>

\* [i*3/2*R, (i - 2*j)*K*R]
_tile_xy(R, i, j) == << <<i * 3 * R, 0>>, <<0, (i - 2 * j) * K[2] * R>> >>

_tile(R, i, j) ==
    [type |-> "Feature",
     geometry |-> [type |-> "Point", coordinates |-> _tile_xy(R, i, j)],
     properties |-> [subType |-> "Hexagon",
                     outerRadius |-> <<2 * R, 0>>,
                     innerRadius |-> <<0, K[2] * R>>,
                     neighbors |-> [d \in {} |-> <<0, 0>>],
                     _id |-> <<i, j>>]]

_list_add(a, b) == [k \in 1..(IF Len(a) < Len(b) THEN Len(a) ELSE Len(b)) |-> a[k] + b[k]]

_id(tile) == tile.properties._id

\* _neighbor_index that subtracts the offset
_neighbor_index_sub(tile, direction) ==
    [k \in 1..2 |-> _id(tile)[k] - DIRECTIONS[direction][k]]

_neighbor_index(tile, direction) == _list_add(_id(tile), DIRECTIONS[direction])

\* ---- object functions (object.py:185-198) --------------------------------
coords(feature) == feature.geometry.coordinates
neighbors(tile) == tile.properties.neighbors
inner_radius(tile) == tile.properties.innerRadius
outer_radius(tile) == tile.properties.outerRadius

\* ---- make_path (object.py:162-180) ---------------------------------------
\* make_path that transforms the rectangular point without _ij
make_path_no_indexer(R, pts) ==
    [type |-> "Feature",
     geometry |-> [type |-> "LineString",
                   coordinates |-> [k \in 1..Len(pts) |-> _tile_xy(R, pts[k][1], pts[k][2])]],
     properties |-> [subType |-> "Path"]]

\* make_path that drops a point equal to its predecessor
make_path_dedup(R, pts) ==
    LET kept == SelectSeq([k \in 1..Len(pts) |-> <<k, pts[k]>>],
                          LAMBDA e : e[1] = 1 \/ pts[e[1] - 1] # e[2])
    IN  [type |-> "Feature",
         geometry |-> [type |-> "LineString",
                       coordinates |-> [k \in 1..Len(kept) |->
                           LET ij == _ij(kept[k][2][1], kept[k][2][2])
                           IN  _tile_xy(R, ij[1], ij[2])]],
         properties |-> [subType |-> "Path"]]

make_path(R, pts) ==
    [type |-> "Feature",
     geometry |-> [type |-> "LineString",
                   coordinates |-> [k \in 1..Len(pts) |->
                       LET ij == _ij(pts[k][1], pts[k][2])
                       IN  _tile_xy(R, ij[1], ij[2])]],
     properties |-> [subType |-> "Path"]]

\* ---- state ---------------------------------------------------------------
VARIABLES
    radius, width, height,   \* the arguments of make_grid
    tiles,                   \* the dict `tiles`: native index -> tile
    order,                   \* the insertion order of the keys of `tiles`
    it,                      \* pairs of the product consumed by the comprehension
    ti, di,                  \* loops of the second pass: tile and direction done so far
    written,                 \* log of the executions of line 154: <<index, direction>>
    grid,                    \* what make_grid returned (None until it returns)
    points, path             \* the argument and the result of make_path (None until called)

vars == <<radius, width, height, tiles, order, it, ti, di, written, grid, points, path>>

\* the pairs the comprehension of make_grid iterates over (object.py:145)
product == cartesian_product(range(width), range(height))

Init ==
    /\ radius \in Radii
    /\ width \in Widths
    /\ height \in Heights
    /\ tiles = [idx \in {} |-> None]
    /\ order = << >>
    /\ it = 0
    /\ ti = 0
    /\ di = 0
    /\ written = << >>
    /\ grid = None
    /\ points = << >>
    /\ path = None

\* a single-pass construction: a created tile is linked at once to the
\* neighbors that exist so far
CreateTile_eager ==
    /\ it < Len(cartesian_product(range(width), range(height)))
    /\ LET ij == cartesian_product(range(width), range(height))[it + 1]
           key == _ij(ij[1], ij[2])
           tile == _tile(radius, key[1], key[2])
           found == {d \in DOMAIN DIRECTIONS : _neighbor_index(tile, d) \in DOMAIN tiles}
       IN  /\ tiles' = (key :> [tile EXCEPT !.properties.neighbors =
                                   [d \in found |-> _neighbor_index(tile, d)]]) @@ tiles
           /\ order' = IF key \in DOMAIN tiles THEN order ELSE Append(order, key)
    /\ it' = it + 1
    /\ UNCHANGED <<radius, width, height, ti, di, written, grid, points, path>>

\* one iteration of the dict comprehension (object.py:143-146)
CreateTile ==
    /\ it < Len(product)
    /\ LET i == product[it + 1][1]
           j == product[it + 1][2]
           key == _ij(i, j)
       IN  /\ tiles' = (key :> _tile(radius, key[1], key[2])) @@ tiles
           /\ order' = IF key \in DOMAIN tiles THEN order ELSE Append(order, key)
    /\ it' = it + 1
    /\ UNCHANGED <<radius, width, height, ti, di, written, grid, points, path>>

\* the loop counters after one iteration of `for direction in DIRECTIONS`
Advance ==
    IF di + 1 = Len(DirectionNames)
    THEN ti' = ti + 1 /\ di' = 0
    ELSE ti' = ti /\ di' = di + 1

\* the second pass is running: the comprehension is complete, tiles remain
Linking ==
    /\ it = Len(product)
    /\ grid = None
    /\ ti < Len(order)

\* one iteration of the inner loop where tiles.get finds a tile (object.py:150-154)
LinkNeighbor ==
    /\ Linking
    /\ LET key == order[ti + 1]
           direction == DirectionNames[di + 1]
           nidx == _neighbor_index(tiles[key], direction)
       IN  /\ nidx \in DOMAIN tiles
           /\ tiles' = [tiles EXCEPT ![key].properties.neighbors = (direction :> nidx) @@ @]
           /\ written' = Append(written, <<key, direction>>)
    /\ Advance
    /\ UNCHANGED <<radius, width, height, order, it, grid, points, path>>

\* one iteration of the inner loop where tiles.get returns None (object.py:150-153)
SkipAbsent ==
    /\ Linking
    /\ LET key == order[ti + 1]
           direction == DirectionNames[di + 1]
           nidx == _neighbor_index(tiles[key], direction)
       IN  nidx \notin DOMAIN tiles
    /\ Advance
    /\ UNCHANGED <<radius, width, height, tiles, order, it, written, grid, points, path>>

\* the return statement (object.py:156-159)
Return ==
    /\ it = Len(product)
    /\ ti = Len(order)
    /\ grid = None
    /\ grid' = [type |-> "FeatureCollection",
                features |-> [k \in 1..Len(order) |-> tiles[order[k]]]]
    /\ UNCHANGED <<radius, width, height, tiles, order, it, ti, di, written, points, path>>

\* a call of make_path with the radius of the grid (object.py:236-238 uses one R for both)
MakePath ==
    /\ grid # None
    /\ path = None
    /\ \E pts \in PathInputs :
          /\ points' = pts
          /\ path' = make_path(radius, pts)
    /\ UNCHANGED <<radius, width, height, tiles, order, it, ti, di, written, grid>>

Next == CreateTile \/ LinkNeighbor \/ SkipAbsent \/ Return \/ MakePath

Spec == Init /\ [][Next]_vars

\* ---- the returned grid ---------------------------------------------------
Returned == grid # None
Features == {grid.features[k] : k \in 1..Len(grid.features)}
\* the tile a reference stands for
Deref(ref) == tiles[ref]
\* the rectangular inputs of make_grid(radius, width, height)
Rect == (0..(width - 1)) \X (0..(height - 1))

Opposite(d) ==
    CASE d = "N" -> "S" [] d = "S" -> "N"
      [] d = "NE" -> "SW" [] d = "SW" -> "NE"
      [] d = "SE" -> "NW" [] d = "NW" -> "SE"

\* C1: in a returned grid, if tile T has tile N under direction D, then N has
\* T under the opposite direction of D (N<->S, NE<->SW, SE<->NW).
NeighborSymmetry ==
    Returned =>
        \A T \in Features : \A D \in DOMAIN neighbors(T) :
            LET N == Deref(neighbors(T)[D])
            IN  /\ Opposite(D) \in DOMAIN neighbors(N)
                /\ Deref(neighbors(N)[Opposite(D)]) = T

NeighborSymmetryWitness ==
    /\ Returned
    /\ \E T \in Features : DOMAIN neighbors(T) = {"N", "NE", "SE", "S", "SW", "NW"}

\* C2: for width >= 0 and height >= 0 the returned grid has exactly
\* width*height tiles, no two with the same native index, and no step of the
\* construction overwrites an earlier tile (after `it` insertions the mapping
\* holds `it` tiles).
TileCount ==
    /\ Cardinality(DOMAIN tiles) = it
    /\ (Returned /\ width >= 0 /\ height >= 0) =>
          /\ Len(grid.features) = width * height
          /\ \A k, l \in 1..Len(grid.features) :
                _id(grid.features[k]) = _id(grid.features[l]) => k = l

TileCountWitness ==
    /\ Returned
    /\ width = 5
    /\ height = 4
    /\ Len(grid.features) = 20

Offset(d) ==
    CASE d = "N" -> <<1, 0>> [] d = "NE" -> <<1, 1>> [] d = "SE" -> <<0, 1>>
      [] d = "S" -> <<-1, 0>> [] d = "SW" -> <<-1, -1>> [] d = "NW" -> <<0, -1>>

\* C3: in a returned grid, tile T with native index (i, j) has key D in its
\* neighbor mapping exactly when the grid holds a tile with native index
\* (i + di, j + dj), (di, dj) the offset of D, and the value is then that
\* tile; the tile of a 1x1 grid has an empty neighbor mapping.
NeighborLookup ==
    Returned =>
        /\ LET ids == {_id(T) : T \in Features}
           IN  \A T \in Features :
                  /\ DOMAIN neighbors(T) \subseteq {"N", "NE", "SE", "S", "SW", "NW"}
                  /\ \A D \in {"N", "NE", "SE", "S", "SW", "NW"} :
                        LET at == <<_id(T)[1] + Offset(D)[1], _id(T)[2] + Offset(D)[2]>>
                        IN  /\ D \in DOMAIN neighbors(T) <=> at \in ids
                            /\ D \in DOMAIN neighbors(T) =>
                                  /\ Deref(neighbors(T)[D]) \in Features
                                  /\ _id(Deref(neighbors(T)[D])) = at
        /\ (width = 1 /\ height = 1) =>
              \A T \in Features : DOMAIN neighbors(T) = {}

NeighborLookupWitness ==
    /\ Returned
    /\ width = 3
    /\ height = 2
    /\ \E T \in Features :
          /\ _id(T) = <<1, 0>>
          /\ DOMAIN neighbors(T) = {"N", "NE", "NW", "S", "SW"}
          /\ neighbors(T)["SW"] = <<0, -1>>

\* C4: the tile built from rectangular (i, j) has native index (i, n) with
\* n = -j + floor(i/2), position (i*(3/2)*radius, (i - 2n)*K*radius),
\* outerRadius = radius and innerRadius = K*radius; the native indices of the
\* grid are exactly the image of the rectangular inputs.
TileFields ==
    Returned =>
        /\ {_id(T) : T \in Features} = {<<r[1], -r[2] + (r[1] \div 2)>> : r \in Rect}
        /\ \A T \in Features :
              LET i == _id(T)[1]
                  n == _id(T)[2]
              IN  /\ coords(T) = << <<3 * i * radius, 0>>, <<0, (i - 2 * n) * radius>> >>
                  /\ outer_radius(T) = <<2 * radius, 0>>
                  /\ inner_radius(T) = <<0, radius>>

TileFieldsWitness ==
    /\ Returned
    /\ radius = 2
    /\ \E T \in Features :
          /\ _id(T) = <<3, -1>>
          /\ coords(T) = << <<18, 0>>, <<0, 10>> >>

\* C5: make_grid(radius=5, width=8, height=7) holds a tile with native index
\* (0,0) at (0.0, 0.0); its "N" neighbor has native index (1,0) and position
\* (7.5, 5*K), and the "S" neighbor of that one is the (0,0) tile.
ExampleGrid ==
    (Returned /\ radius = 5 /\ width = 8 /\ height = 7) =>
        \E T \in Features :
            /\ _id(T) = <<0, 0>>
            /\ coords(T) = << <<0, 0>>, <<0, 0>> >>
            /\ "N" \in DOMAIN neighbors(T)
            /\ LET N == Deref(neighbors(T)["N"])
               IN  /\ N \in Features
                   /\ _id(N) = <<1, 0>>
                   /\ coords(N) = << <<15, 0>>, <<0, 5>> >>
                   /\ "S" \in DOMAIN neighbors(N)
                   /\ Deref(neighbors(N)["S"]) = T

ExampleGridWitness ==
    /\ Returned
    /\ radius = 5
    /\ width = 8
    /\ height = 7
    /\ Len(grid.features) = 56

\* C6: the output of make_path has the length of its input and its k-th
\* coordinate is (i*(3/2)*radius, (i - 2*(-j + floor(i/2)))*K*radius) for the
\* k-th input point (i, j): nothing is dropped, reordered or rejected.
PathPreserving ==
    path # None =>
        /\ Len(coords(path)) = Len(points)
        /\ \A k \in 1..Len(points) :
              LET i == points[k][1]
                  j == points[k][2]
              IN  coords(path)[k] =
                      << <<3 * i * radius, 0>>,
                         <<0, (i - 2 * (-j + (i \div 2))) * radius>> >>

PathPreservingWitness ==
    /\ path # None
    /\ radius = 2
    /\ points = << <<-3, -1>>, <<-3, -1>> >>
    /\ coords(path) = << << <<-18, 0>>, <<0, -2>> >>, << <<-18, 0>>, <<0, -2>> >> >>

\* C7: for the radius of the grid, make_path projects every rectangular
\* point (i, j) with 0 <= i < width and 0 <= j < height to the position of the
\* tile of the grid with native index (i, -j + floor(i/2)).
PathGridAgreement ==
    (Returned /\ path # None) =>
        \A k \in 1..Len(points) :
            LET i == points[k][1]
                j == points[k][2]
            IN  (0 <= i /\ i < width /\ 0 <= j /\ j < height) =>
                    \E T \in Features :
                        /\ _id(T) = <<i, -j + (i \div 2)>>
                        /\ coords(T) = coords(path)[k]

PathGridAgreementWitness ==
    /\ Returned
    /\ radius = 5
    /\ width = 8
    /\ height = 7
    /\ points = << <<0, 0>>, <<1, 0>> >>
    /\ coords(path) = << << <<0, 0>>, <<0, 0>> >>, << <<15, 0>>, <<0, 5>> >> >>

Degenerate == width <= 0 \/ height <= 0

\* C8: make_grid reaches no error for any integer width and height: until it
\* has returned a step of it can be taken, and when width <= 0 or height <= 0
\* it creates no tile, records no link and returns the empty collection.
NoErrorEmptyGrid ==
    /\ grid = None => ENABLED (CreateTile \/ LinkNeighbor \/ SkipAbsent \/ Return)
    /\ Degenerate =>
          /\ tiles = [idx \in {} |-> None]
          /\ written = << >>
          /\ grid = None => ENABLED Return
          /\ Returned => grid = [type |-> "FeatureCollection", features |-> << >>]

NoErrorEmptyGridWitness ==
    /\ Returned
    /\ width = -2
    /\ height = 3
    /\ grid.features = << >>

Linked(t) == \E key \in DOMAIN t : DOMAIN neighbors(t[key]) # {}
Fixed(tile) == <<_id(tile), coords(tile), outer_radius(tile), inner_radius(tile)>>

TwoPassStep ==
    /\ Linked(tiles') =>
          /\ it = Len(product)
          /\ DOMAIN tiles = {<<r[1], -r[2] + (r[1] \div 2)>> : r \in Rect}
          /\ Cardinality(DOMAIN tiles) = width * height
          /\ DOMAIN tiles' = DOMAIN tiles
          /\ \A key \in DOMAIN tiles : Fixed(tiles'[key]) = Fixed(tiles[key])
    /\ \A key \in DOMAIN tiles : \A D \in DOMAIN neighbors(tiles[key]) :
          /\ key \in DOMAIN tiles'
          /\ D \in DOMAIN neighbors(tiles'[key])
          /\ neighbors(tiles'[key])[D] = neighbors(tiles[key])[D]
    /\ Cardinality({slot \in (DOMAIN tiles') \X (DOMAIN DIRECTIONS) :
                        /\ slot[2] \in DOMAIN neighbors(tiles'[slot[1]])
                        /\ ~ (/\ slot[1] \in DOMAIN tiles
                              /\ slot[2] \in DOMAIN neighbors(tiles[slot[1]]))}) <= 1
    /\ \/ written' = written
       \/ /\ Len(written') = Len(written) + 1
          /\ SubSeq(written', 1, Len(written)) = written
          /\ \A a \in 1..Len(written) : written[a] # written'[Len(written')]

\* C9: no neighbor link is recorded until all width*height tiles are in the
\* mapping; a step of the linking pass writes at most one (tile, direction)
\* slot, one that was empty and was never written before, removes and
\* overwrites no recorded link, and leaves the set of tiles and every tile's
\* index, position and radii unchanged.
TwoPass == [][TwoPassStep]_vars

TwoPassWitness ==
    /\ grid = None
    /\ width = 3
    /\ height = 3
    /\ ti = 4
    /\ Len(written) > 10

\* C10: in a returned grid the tile built from rectangular (i, j) has all six
\* directions populated exactly when 0 < i < width-1 and 0 < j < height-1;
\* every tile of the rectangular boundary has at most five neighbors.
InteriorSix ==
    Returned =>
        \A r \in Rect :
            LET T == Deref(<<r[1], -r[2] + (r[1] \div 2)>>)
                interior == 0 < r[1] /\ r[1] < width - 1 /\ 0 < r[2] /\ r[2] < height - 1
            IN  /\ T \in Features
                /\ Cardinality(DOMAIN neighbors(T)) = 6 <=> interior
                /\ ~ interior => Cardinality(DOMAIN neighbors(T)) <= 5

InteriorSixWitness ==
    /\ Returned
    /\ width = 4
    /\ height = 3
    /\ Cardinality(DOMAIN neighbors(Deref(<<1, -1>>))) = 6
    /\ Cardinality(DOMAIN neighbors(Deref(<<2, 0>>))) = 6
    /\ Cardinality(DOMAIN neighbors(Deref(<<3, 1>>))) = 3

====
